---- MODULE Spec2Model ----
(***************************************************************************)
(* The singly-linked list of src/src/data_structs/mod.rs as a state        *)
(* machine over an explicit heap of nodes.  Box<Node<T>> is an address of  *)
(* the heap, Option<Box<..>> is an address or NULL, and every method of    *)
(* LinkedList is an action.  The two loops of the file (Drop::drop and     *)
(* Clone::clone) run one iteration per step.                               *)
(***************************************************************************)
EXTENDS Integers, Sequences, FiniteSets, TLC

\* ------------------------------------------------------------- bounds
MaxLen == 2          \* push is not taken on a list that holds MaxLen values
MaxVal == 2          \* element values are 1..MaxVal
MaxNone == 2         \* calls of next recorded after an iterator is exhausted

\* ---------------------------------------------------------- constants
NULL == 0            \* Option::None of a link (head, next, cursor)

IntoId == 4           \* the LinkedList held in the field IntoIter.list

ListIds == {1, 2}                    \* list 1, and list 2 = list1.clone()
CloneIds == {1, 2, 3}                \* and list 3 = list2.clone()
Slots   == 1..IntoId                 \* every LinkedList value of the program
Values  == 1..MaxVal                 \* T
Addr    == 1..(3 * MaxLen)           \* the boxes the allocator can hand out
MaxOps  == 2 * MaxLen + 1            \* calls recorded by the push/pop scenario

None    == << >>                     \* Option::None of a returned value
Some(v) == << v >>                   \* Option::Some(v)

VARIABLES
  heap,     \* Addr -> Node: value, next, and whether the box is allocated
  lists,    \* Slots -> LinkedList: head, length, and whether it is alive
  bor,      \* the outstanding borrow: an Iter, an IterMut or a peek_mut ref
  call,     \* the method whose loop is running (drop, clear, clone), or idle
  ret,      \* the last call: its name, its list, its argument, its result
  hist      \* the calls of a scenario and their results, in order

vars == << heap, lists, bor, call, ret, hist >>

\* ------------------------------------------------------------- Node
FreeNode == [value |-> 0, next |-> NULL, alloc |-> FALSE]

\* Node::new(value, next)
NodeNew(value, next) == [value |-> value, next |-> next, alloc |-> TRUE]

\* Box::new: the allocator hands out a box that is not in use.  Which free
\* box it hands out changes nothing the program computes; here each list is
\* served from a range of its own, lowest free address first, so that equal
\* lists are not told apart by where their nodes happen to lie.
Arena(l) == ((l - 1) * MaxLen + 1)..(l * MaxLen)
FreeAddrs(h, l) == {a \in Arena(l) : ~h[a].alloc}
BoxNew(h, l) == CHOOSE a \in FreeAddrs(h, l) : \A b \in FreeAddrs(h, l) : a <= b

\* ------------------------------------------------------- LinkedList
\* LinkedList::new()
NewList == [head |-> NULL, length |-> 0, alive |-> TRUE]
DeadList == [head |-> NULL, length |-> 0, alive |-> FALSE]

\* the addresses reached from a by following next, in order
RECURSIVE Chain(_, _, _)
Chain(h, a, fuel) ==
  IF a = NULL \/ fuel = 0 THEN << >>
  ELSE << a >> \o Chain(h, h[a].next, fuel - 1)

Nodes(l) == Chain(heap, lists[l].head, Cardinality(Addr) + 1)
ValsOf(h, a) ==
  LET c == Chain(h, a, Cardinality(Addr) + 1)
  IN  [i \in 1..Len(c) |-> h[c[i]].value]
Vals(l) == ValsOf(heap, lists[l].head)

\* LinkedList::length, LinkedList::is_empty
length(l)   == lists[l].length
is_empty(l) == lists[l].length = 0

\* a returned Option<&T>, Option<&mut T> or Option<T>: the head's value
HeadValue(h, L) == IF L.head = NULL THEN None ELSE Some(h[L.head].value)

\* drop glue of Option<Box<Node<T>>>: the box and everything it still owns
RECURSIVE DropBox(_, _, _)
DropBox(h, a, fuel) ==
  IF a = NULL \/ fuel = 0 THEN h
  ELSE DropBox([h EXCEPT ![a] = FreeNode], h[a].next, fuel - 1)

\* mutant: the new node is not linked to the previous head
PushHeapNoLink(h, L, v, l) == [h EXCEPT ![BoxNew(h, l)] = NodeNew(v, NULL)]

\* mutant: push forgets self.length += 1
PushSelfNoCount(h, L, v, l) == [L EXCEPT !.head = BoxNew(h, l)]

\* mutant: the new node takes the value of the node it is put in front of
PushHeapStale(h, L, v, l) ==
  [h EXCEPT ![BoxNew(h, l)] =
     NodeNew(IF L.head = NULL THEN v ELSE h[L.head].value, L.head)]

\* push on list l, whose fields are L:
\* self.length += 1; Box::new(Node::new(value, self.head.take()))
PushHeap(h, L, v, l) == [h EXCEPT ![BoxNew(h, l)] = NodeNew(v, L.head)]
PushSelf(h, L, v, l) == [L EXCEPT !.length = @ + 1, !.head = BoxNew(h, l)]

\* pop: self.head.take().map(|node| { length -= 1; head = node.next; node.value })
\* the box of the detached node is released once its fields are moved out
PopHeap(h, L) ==
  IF L.head = NULL THEN h
  ELSE DropBox([h EXCEPT ![L.head].next = NULL], L.head, 1)
\* mutant: pop counts down before it looks at the head
PopSelfAlways(h, L) ==
  [L EXCEPT !.length = @ - 1,
            !.head = IF L.head = NULL THEN NULL ELSE h[L.head].next]

\* mutant: pop forgets self.length -= 1
PopSelfNoCount(h, L) ==
  IF L.head = NULL THEN L ELSE [L EXCEPT !.head = h[L.head].next]

PopSelf(h, L) ==
  IF L.head = NULL THEN L
  ELSE [L EXCEPT !.length = @ - 1, !.head = h[L.head].next]
PopRet(h, L) == HeadValue(h, L)

\* mutant: peek looks one node too far
PeekRetSecond(h, L) ==
  IF L.head = NULL THEN None
  ELSE IF h[L.head].next = NULL THEN Some(h[L.head].value)
  ELSE Some(h[h[L.head].next].value)

\* peek: self.head.as_ref().map(|node| &node.value)
PeekRet(h, L) == HeadValue(h, L)

\* peek_mut: self.head.as_mut().map(|node| &mut node.value)
PeekMutRet(h, L) == HeadValue(h, L)
\* mutant: peek_mut hands out the value of the node after the head
PeekMutRefsSecond(h, L) ==
  IF L.head = NULL THEN {}
  ELSE IF h[L.head].next = NULL THEN {L.head}
  ELSE {h[L.head].next}

PeekMutRefs(h, L) == IF L.head = NULL THEN {} ELSE {L.head}

\* ------------------------------------------------------------ borrows
NoBorrow == [kind |-> "none", list |-> 0, next |-> NULL, refs |-> {}, out |-> << >>]

\* a call taking &mut self ends every borrow of the list (the borrow checker
\* admits the call only where the iterator or reference is no longer used)
EndMut(l) == IF bor.list = l THEN NoBorrow ELSE bor

\* a call taking &self ends an exclusive borrow of the list, not a shared one
EndShared(l) ==
  IF bor.list = l /\ bor.kind \in {"iter_mut", "peek_mut"} THEN NoBorrow ELSE bor

\* -------------------------------------------------------------- calls
Idle == [op |-> "idle", self |-> 0, dst |-> 0, current |-> NULL, node |-> NULL]
Ret(op, l, arg, val) == [op |-> op, list |-> l, arg |-> arg, val |-> val]

Init ==
  /\ heap = [a \in Addr |-> FreeNode]
  /\ lists = [l \in Slots |-> IF l = 1 THEN NewList ELSE DeadList]
  /\ bor = NoBorrow
  /\ call = Idle
  /\ ret = Ret("new", 1, 0, None)
  /\ hist = << >>

\* let list = LinkedList::new();  (the other lists are only ever made by
\* clone or moved into an IntoIter, and none of them outlives list 1)
New(l) ==
  /\ call.op = "idle"
  /\ \A m \in Slots : m >= l /\ ~lists[m].alive
  /\ lists' = [lists EXCEPT ![l] = NewList]
  /\ ret' = Ret("new", l, 0, None)
  /\ UNCHANGED << heap, bor, call, hist >>

\* list.push(v)
PushOp(l, v) ==
  /\ call.op = "idle"
  /\ lists[l].alive
  /\ lists[l].length < MaxLen
  /\ FreeAddrs(heap, l) # {}
  /\ heap' = PushHeap(heap, lists[l], v, l)
  /\ lists' = [lists EXCEPT ![l] = PushSelf(heap, lists[l], v, l)]
  /\ bor' = EndMut(l)
  /\ ret' = Ret("push", l, v, None)
  /\ UNCHANGED call

Push(l, v) == PushOp(l, v) /\ UNCHANGED hist

\* list.pop()
PopOp(l) ==
  /\ call.op = "idle"
  /\ lists[l].alive
  /\ heap' = PopHeap(heap, lists[l])
  /\ lists' = [lists EXCEPT ![l] = PopSelf(heap, lists[l])]
  /\ bor' = EndMut(l)
  /\ ret' = Ret("pop", l, 0, PopRet(heap, lists[l]))
  /\ UNCHANGED call

Pop(l) == PopOp(l) /\ UNCHANGED hist

\* list.peek()
Peek(l) ==
  /\ call.op = "idle"
  /\ lists[l].alive
  /\ bor' = EndShared(l)
  /\ ret' = Ret("peek", l, 0, PeekRet(heap, lists[l]))
  /\ UNCHANGED << heap, lists, call, hist >>

\* list.peek_mut(): the returned reference borrows the list exclusively
PeekMut(l) ==
  /\ call.op = "idle"
  /\ lists[l].alive
  /\ bor' = IF lists[l].head = NULL THEN EndMut(l)
            ELSE [kind |-> "peek_mut", list |-> l, next |-> NULL,
                  refs |-> PeekMutRefs(heap, lists[l]), out |-> << >>]
  /\ ret' = Ret("peek_mut", l, 0, PeekMutRet(heap, lists[l]))
  /\ UNCHANGED << heap, lists, call, hist >>

\* *r = w through a reference handed out by peek_mut or by IterMut::next
WriteHeap(h, a, w) == [h EXCEPT ![a].value = w]

WriteRefOp(a, w) ==
  /\ call.op = "idle"
  /\ bor.kind \in {"peek_mut", "iter_mut"}
  /\ a \in bor.refs
  /\ heap' = WriteHeap(heap, a, w)
  /\ ret' = Ret("write", bor.list, w, None)
  /\ UNCHANGED << lists, bor, call >>

WriteRef(a, w) == WriteRefOp(a, w) /\ UNCHANGED hist

\* ---------------------------------------------------- Drop and clear
\* Drop::drop, first statement: let mut current = self.head.take();
DropEnter(op, l) ==
  [op |-> op, self |-> l, dst |-> 0, current |-> lists[l].head, node |-> NULL]

\* list.clear(): *self = Self::new() runs the destructor of the old value
\* and then stores the new one
Clear(l) ==
  /\ call.op = "idle"
  /\ lists[l].alive
  /\ call' = DropEnter("clear", l)
  /\ lists' = [lists EXCEPT ![l].head = NULL]
  /\ bor' = EndMut(l)
  /\ ret' = Ret("clear", l, 0, None)
  /\ UNCHANGED << heap, hist >>

\* the list goes out of scope: locals are dropped in reverse order of
\* declaration, an IntoIter before the lists, a clone before its source
DropList(l) ==
  /\ call.op = "idle"
  /\ lists[l].alive
  /\ \A m \in Slots : m > l => ~lists[m].alive
  /\ call' = DropEnter("drop", l)
  /\ lists' = [lists EXCEPT ![l].head = NULL]
  /\ bor' = EndMut(l)
  /\ ret' = Ret("drop", l, 0, None)
  /\ UNCHANGED << heap, hist >>

\* while let Some(node) = current { current = node.next;
\* mutant: node keeps its successor, and releasing node releases the rest
DropTakeHeapKeep(h, c) == h

DropTakeHeap(h, c) == [h EXCEPT ![c.current].next = NULL]
DropTakeCall(h, c) == [c EXCEPT !.node = c.current, !.current = h[c.current].next]

DropTake ==
  /\ call.op \in {"clear", "drop"}
  /\ call.node = NULL
  /\ call.current # NULL
  /\ heap' = DropTakeHeap(heap, call)
  /\ call' = DropTakeCall(heap, call)
  /\ UNCHANGED << lists, bor, ret, hist >>

\* } the end of the loop body releases node
DropFreeHeap(h, c) == DropBox(h, c.node, Cardinality(Addr))

DropFree ==
  /\ call.op \in {"clear", "drop"}
  /\ call.node # NULL
  /\ heap' = DropFreeHeap(heap, call)
  /\ call' = [call EXCEPT !.node = NULL]
  /\ UNCHANGED << lists, bor, ret, hist >>

\* the loop is over: the fields of the old value are released, and clear
\* stores Self::new() in *self
\* mutant: clear resets head and leaves length as it was
DropDoneSelfKeepLen(L, c) ==
  IF c.op = "clear" THEN [L EXCEPT !.head = NULL] ELSE DeadList

DropDoneSelf(L, c) == IF c.op = "clear" THEN NewList ELSE DeadList

DropDone ==
  /\ call.op \in {"clear", "drop"}
  /\ call.node = NULL
  /\ call.current = NULL
  /\ heap' = DropBox(heap, lists[call.self].head, Cardinality(Addr))
  /\ lists' = [lists EXCEPT ![call.self] = DropDoneSelf(lists[call.self], call)]
  /\ call' = Idle
  /\ UNCHANGED << bor, ret, hist >>

\* -------------------------------------------------------------- Clone
\* let mut new_list = Self::new(); let mut current = &self.head;
CloneBegin(src, dst) ==
  /\ call.op = "idle"
  /\ lists[src].alive
  /\ ~lists[dst].alive
  /\ dst = src + 1
  /\ FreeAddrs(heap, dst) = Arena(dst)     \* the allocator has the room
  /\ lists' = [lists EXCEPT ![dst] = NewList]
  /\ call' = [op |-> "clone", self |-> src, dst |-> dst,
              current |-> lists[src].head, node |-> NULL]
  /\ bor' = EndShared(src)
  /\ ret' = Ret("clone", dst, src, None)
  /\ UNCHANGED << heap, hist >>

\* while let Some(node) = current {
\*   new_list.push(node.value.clone()); current = &node.next; }
CloneStepHeap(h, L, c) == PushHeap(h, L, h[c.current].value, c.dst)
\* mutant: the clone takes over the node of the source instead of its own copy
CloneStepListShare(h, L, c) == [L EXCEPT !.length = @ + 1, !.head = c.current]

CloneStepList(h, L, c) == PushSelf(h, L, h[c.current].value, c.dst)
\* mutant: the walk over the source leaves out every other node
CloneStepCallSkip(h, c) ==
  [c EXCEPT !.current = IF h[c.current].next = NULL THEN NULL
                        ELSE h[h[c.current].next].next]

CloneStepCall(h, c) == [c EXCEPT !.current = h[c.current].next]

CloneStep ==
  /\ call.op = "clone"
  /\ call.current # NULL
  /\ heap' = CloneStepHeap(heap, lists[call.dst], call)
  /\ lists' = [lists EXCEPT ![call.dst] = CloneStepList(heap, lists[call.dst], call)]
  /\ call' = CloneStepCall(heap, call)
  /\ UNCHANGED << bor, ret, hist >>

\* new_list is returned
CloneDone ==
  /\ call.op = "clone"
  /\ call.current = NULL
  /\ call' = Idle
  /\ UNCHANGED << heap, lists, bor, ret, hist >>

\* ---------------------------------------------------------- iterators
\* list.iter(): Iter { next: self.head.as_deref() }
IterInit(l) ==
  [kind |-> "iter", list |-> l, next |-> lists[l].head, refs |-> {}, out |-> << >>]

IterNewOp(l) ==
  /\ call.op = "idle"
  /\ lists[l].alive
  /\ bor' = IterInit(l)
  /\ ret' = Ret("iter", l, 0, None)
  /\ UNCHANGED << heap, lists, call >>

IterNew(l) == IterNewOp(l) /\ UNCHANGED hist

\* Iter::next: self.next.map(|node| { self.next = node.next.as_deref(); &node.value })
IterNextRet(h, b) == IF b.next = NULL THEN None ELSE Some(h[b.next].value)
\* mutant: the cursor advances past the successor
IterNextSelfSkip(h, b) ==
  IF b.next = NULL THEN b
  ELSE [b EXCEPT !.next = IF h[b.next].next = NULL THEN NULL
                           ELSE h[h[b.next].next].next]

\* mutant: an exhausted iterator starts over from the head of its list
IterNextSelfRewind(h, b) ==
  IF b.next = NULL THEN [b EXCEPT !.next = lists[b.list].head]
  ELSE [b EXCEPT !.next = h[b.next].next]

IterNextSelf(h, b) ==
  IF b.next = NULL THEN b
  ELSE [b EXCEPT !.next = h[b.next].next]

\* bor.out collects what the calls of next on an Iter have returned so far
IterNextOp ==
  /\ call.op = "idle"
  /\ bor.kind = "iter"
  /\ bor' = [IterNextSelf(heap, bor) EXCEPT !.out = @ \o IterNextRet(heap, bor)]
  /\ ret' = Ret("iter_next", bor.list, 0, IterNextRet(heap, bor))
  /\ UNCHANGED << heap, lists, call >>

IterNext == IterNextOp /\ UNCHANGED hist

\* list.iter_mut(): IterMut { next: self.head.as_deref_mut() }
IterMutInit(l) ==
  [kind |-> "iter_mut", list |-> l, next |-> lists[l].head, refs |-> {}, out |-> << >>]

IterMutNewOp(l) ==
  /\ call.op = "idle"
  /\ lists[l].alive
  /\ bor' = IterMutInit(l)
  /\ ret' = Ret("iter_mut", l, 0, None)
  /\ UNCHANGED << heap, lists, call >>

IterMutNew(l) == IterMutNewOp(l) /\ UNCHANGED hist

\* IterMut::next: self.next.take().map(|node| {
\*   self.next = node.next.as_deref_mut(); &mut node.value })
\* mutant: next takes the last node for the end of the chain
IterMutNextRetEarly(h, b) ==
  IF b.next = NULL \/ h[b.next].next = NULL THEN None ELSE Some(h[b.next].value)

IterMutNextRet(h, b) == IF b.next = NULL THEN None ELSE Some(h[b.next].value)
\* mutant: the cursor advances past the successor
IterMutNextSelfSkip(h, b) ==
  IF b.next = NULL THEN b
  ELSE [b EXCEPT !.next = IF h[b.next].next = NULL THEN NULL
                           ELSE h[h[b.next].next].next,
                 !.refs = @ \cup {b.next}]

IterMutNextSelf(h, b) ==
  IF b.next = NULL THEN b
  ELSE [b EXCEPT !.next = h[b.next].next, !.refs = @ \cup {b.next}]

IterMutNextOp ==
  /\ call.op = "idle"
  /\ bor.kind = "iter_mut"
  /\ bor' = IterMutNextSelf(heap, bor)
  /\ ret' = Ret("iter_mut_next", bor.list, 0, IterMutNextRet(heap, bor))
  /\ UNCHANGED << heap, lists, call >>

IterMutNext == IterMutNextOp /\ UNCHANGED hist

\* list.into_iter(): IntoIter { list: self } moves the list into the iterator
IntoIterNewOp(l) ==
  /\ call.op = "idle"
  /\ lists[l].alive
  /\ ~lists[IntoId].alive
  /\ lists' = [lists EXCEPT ![IntoId] = lists[l], ![l] = DeadList]
  /\ bor' = EndMut(l)
  /\ ret' = Ret("into_iter", l, 0, None)
  /\ UNCHANGED << heap, call >>

IntoIterNew(l) == IntoIterNewOp(l) /\ UNCHANGED hist

\* IntoIter::next: self.list.head.take().map(|node| {
\*   self.list.head = node.next; node.value })
\* the box of the detached node is released once its fields are moved out
IntoNextRet(h, L) == HeadValue(h, L)
\* mutant: the head moves on past the successor of the detached node
IntoNextSelfSkip(h, L) ==
  IF L.head = NULL THEN L
  ELSE [L EXCEPT !.head = IF h[L.head].next = NULL THEN NULL
                           ELSE h[h[L.head].next].next]

IntoNextSelf(h, L) ==
  IF L.head = NULL THEN L ELSE [L EXCEPT !.head = h[L.head].next]
\* mutant: the detached node is forgotten, box and successor link and all
IntoNextHeapLeak(h, L) == h

IntoNextHeap(h, L) ==
  IF L.head = NULL THEN h
  ELSE DropBox([h EXCEPT ![L.head].next = NULL], L.head, 1)

IntoIterNextOp ==
  /\ call.op = "idle"
  /\ lists[IntoId].alive
  /\ heap' = IntoNextHeap(heap, lists[IntoId])
  /\ lists' = [lists EXCEPT ![IntoId] = IntoNextSelf(heap, lists[IntoId])]
  /\ ret' = Ret("into_next", IntoId, 0, IntoNextRet(heap, lists[IntoId]))
  /\ UNCHANGED << bor, call >>

IntoIterNext == IntoIterNextOp /\ UNCHANGED hist

\* the IntoIter goes out of scope: its field list is dropped
IntoIterDrop == DropList(IntoId)

\* ------------------------------------------------------ specification
Next ==
  \/ \E l \in ListIds : New(l)
  \/ \E l \in ListIds, v \in Values : Push(l, v)
  \/ \E l \in ListIds : Pop(l)
  \/ \E l \in ListIds : Peek(l)
  \/ \E l \in ListIds : PeekMut(l)
  \/ \E a \in Addr, w \in Values : WriteRef(a, w)
  \/ \E l \in ListIds : Clear(l)
  \/ \E l \in ListIds : DropList(l)
  \/ DropTake
  \/ DropFree
  \/ DropDone
  \/ \E src \in ListIds, dst \in ListIds : CloneBegin(src, dst)
  \/ CloneStep
  \/ CloneDone
  \/ \E l \in ListIds : IterNew(l)
  \/ IterNext
  \/ \E l \in ListIds : IterMutNew(l)
  \/ IterMutNext

Spec == Init /\ [][Next]_vars

\* the calls that allocate, link, move or release a node, without the borrows
NextOwn ==
  \/ \E l \in ListIds : New(l)
  \/ \E l \in ListIds, v \in Values : Push(l, v)
  \/ \E l \in ListIds : Pop(l)
  \/ \E l \in ListIds : Clear(l)
  \/ \E l \in ListIds : DropList(l)
  \/ DropTake
  \/ DropFree
  \/ DropDone
  \/ \E src \in ListIds, dst \in ListIds : CloneBegin(src, dst)
  \/ CloneStep
  \/ CloneDone
  \/ \E l \in ListIds : IntoIterNew(l)
  \/ IntoIterNext
  \/ IntoIterDrop

SpecOwn == Init /\ [][NextOwn]_vars

\* every call.  A borrow of a list and an IntoIter do not touch each other's
\* state (no call on one reads or writes what the other holds), so the
\* borrowing calls are taken while no IntoIter is alive, and the calls on an
\* IntoIter while no borrow is outstanding
NextAll ==
  \/ Next /\ ~lists[IntoId].alive
  \/ NextOwn /\ bor = NoBorrow

SpecAll == Init /\ [][NextAll]_vars

\* l.clone() and l.clone().clone(): list 1 is built by push and pop, list 2
\* is its clone and list 3 the clone of list 2; list 1 is left alone while a
\* clone of it is alive, and the clones are dropped youngest first
NextClone ==
  \/ \E v \in Values : Push(1, v) /\ ~lists[2].alive
  \/ Pop(1) /\ ~lists[2].alive
  \/ \E src \in ListIds, dst \in CloneIds : CloneBegin(src, dst)
  \/ CloneStep
  \/ CloneDone
  \/ \E l \in CloneIds \ {1} : DropList(l)
  \/ DropTake
  \/ DropFree
  \/ DropDone

SpecClone == Init /\ [][NextClone]_vars

\* the push/pop scenario: any interleaving of push and pop on the list that
\* new() returned, every call and its result recorded in hist
HPush(v) ==
  /\ Len(hist) < MaxOps
  /\ PushOp(1, v)
  /\ hist' = Append(hist, ret')

HPop ==
  /\ Len(hist) < MaxOps
  /\ PopOp(1)
  /\ hist' = Append(hist, ret')

NextStack ==
  \/ \E v \in Values : HPush(v)
  \/ HPop

SpecStack == Init /\ [][NextStack]_vars

\* the traversal scenario: values are pushed onto the list that new()
\* returned, one iterator is made of it and next is called on it, past the
\* end too; a yielded &mut T may be written, and the list is popped after an
\* Iter or IterMut; every call and its result is recorded in hist
OnlyPushes == \A i \in 1..Len(hist) : hist[i].op = "push"
NumNone(op) ==
  Cardinality({i \in 1..Len(hist) : hist[i].op = op /\ hist[i].val = None})
LastOp == IF hist = << >> THEN "new" ELSE hist[Len(hist)].op
\* the node behind the reference that the last IterMut::next returned
PosIn(c, a) == CHOOSE i \in 1..Len(c) : c[i] = a
LastYielded ==
  CHOOSE a \in bor.refs :
    \A b \in bor.refs : PosIn(Nodes(bor.list), b) <= PosIn(Nodes(bor.list), a)

HPassPush(v) ==
  /\ OnlyPushes
  /\ PushOp(1, v)
  /\ hist' = Append(hist, ret')

HIter ==
  /\ OnlyPushes
  /\ IterNewOp(1)
  /\ hist' = Append(hist, ret')

HIterMut ==
  /\ OnlyPushes
  /\ IterMutNewOp(1)
  /\ hist' = Append(hist, ret')

HIntoIter ==
  /\ OnlyPushes
  /\ IntoIterNewOp(1)
  /\ hist' = Append(hist, ret')

HIterNext ==
  /\ NumNone("iter_next") < MaxNone
  /\ IterNextOp
  /\ hist' = Append(hist, ret')

HIterMutNext ==
  /\ NumNone("iter_mut_next") < MaxNone
  /\ IterMutNextOp
  /\ hist' = Append(hist, ret')

\* *x = w  on the x that the call of next just before returned
HWrite(w) ==
  /\ LastOp = "iter_mut_next"
  /\ hist[Len(hist)].val # None
  /\ WriteRefOp(LastYielded, w)
  /\ hist' = Append(hist, ret')

HIntoNext ==
  /\ NumNone("into_next") < MaxNone
  /\ IntoIterNextOp
  /\ hist' = Append(hist, ret')

HPassPop ==
  /\ ~OnlyPushes
  /\ NumNone("pop") < 1
  /\ PopOp(1)
  /\ hist' = Append(hist, ret')

NextPass ==
  \/ \E v \in Values : HPassPush(v)
  \/ HIter
  \/ HIterMut
  \/ HIntoIter
  \/ HIterNext
  \/ HIterMutNext
  \/ \E w \in Values : HWrite(w)
  \/ HIntoNext
  \/ HPassPop

SpecPass == Init /\ [][NextPass]_vars

\* ------------------------------------------------------------- claims
\* the calls of hist are n pushes followed by pops only
PushesThenPops(n) ==
  /\ \A i \in 1..n : hist[i].op = "push"
  /\ \A j \in (n + 1)..Len(hist) : hist[j].op = "pop"

\* C1: after v1..vn are pushed in that order onto a new list, the next n
\* calls of pop return Some(vn), ..., Some(v1) in that order, and the pops
\* after those return None.
C1_Lifo ==
  \A n \in 0..Len(hist) :
    PushesThenPops(n) =>
      \A j \in (n + 1)..Len(hist) :
        hist[j].val = IF j - n <= n THEN Some(hist[2 * n - j + 1].arg) ELSE None

C1_Witness ==
  /\ Len(hist) = 2 * MaxLen + 1
  /\ PushesThenPops(MaxLen)
  /\ hist[1].arg # hist[2].arg
  /\ hist[Len(hist)].val = None

NumPushes == Cardinality({i \in 1..Len(hist) : hist[i].op = "push"})
NumPopsSome ==
  Cardinality({i \in 1..Len(hist) : hist[i].op = "pop" /\ hist[i].val # None})

\* C6: for any interleaving of push and pop on a new list, length() is the
\* number of pushes minus the number of pops that returned Some, and
\* is_empty() is true exactly when length() = 0, exactly when there is no head.
C6_LengthCounts ==
  /\ length(1) = NumPushes - NumPopsSome
  /\ is_empty(1) <=> (length(1) = 0)
  /\ is_empty(1) <=> (lists[1].head = NULL)

C6_Witness ==
  /\ Len(hist) = MaxOps
  /\ hist[1].op = "pop"
  /\ hist[3].op = "pop"
  /\ NumPopsSome >= 1
  /\ length(1) = MaxLen

\* the list l is inside its destructor (clear or drop is running on it)
InDrop(l) == call.op \in {"clear", "drop"} /\ call.self = l

\* C2: in every state reached by completed calls, the length field of a list
\* equals the number of nodes reachable from its head by next links.
C2_LengthIsNodeCount ==
  \A l \in ListIds :
    (lists[l].alive /\ ~InDrop(l)) => length(l) = Len(Nodes(l))

C2_Witness ==
  /\ call.op = "idle"
  /\ lists[2].alive
  /\ length(1) = MaxLen
  /\ length(2) = 1
  /\ ret.op = "pop"
  /\ ret.val # None

\* C3: clone returns a list whose values are in the same front-to-back order
\* as the original's (popping both to None gives the same sequence).
C3_CloneSameOrder ==
  (call.op = "idle" /\ ret.op = "clone") => Vals(ret.list) = Vals(ret.arg)

\* C4: a call on one list (push, pop, a write through peek_mut or iter_mut,
\* clear) changes neither the length nor the values of the other list of a
\* clone pair, in both directions, and clone itself leaves its source as it was.
C4_CloneIndependent ==
  [][\A m \in ListIds :
       (lists[m].alive /\ ret'.list # m) =>
         /\ lists'[m] = lists[m]
         /\ ValsOf(heap', lists'[m].head) = Vals(m)]_vars

C4_Witness ==
  /\ call.op = "idle"
  /\ lists[1].alive
  /\ lists[2].alive
  /\ ret.list = 2
  /\ ret.op = "write"
  /\ length(1) = MaxLen
  /\ length(2) = MaxLen
  /\ Vals(2)[1] # Vals(1)[MaxLen]

\* C5: on an empty list pop, peek and peek_mut return None and leave the list
\* empty, with length() = 0 and is_empty().
C5_EmptyReturnsNone ==
  [][\A l \in ListIds :
       (lists[l] = NewList /\ ret'.list = l
          /\ ret'.op \in {"pop", "peek", "peek_mut"}) =>
         /\ ret'.val = None
         /\ lists'[l] = NewList
         /\ lists'[l].length = 0
         /\ heap' = heap]_vars

C5_Witness ==
  /\ ret.op = "pop"
  /\ ret.val = None
  /\ ret.list = 2
  /\ lists[2] = NewList
  /\ is_empty(2)
  /\ ~is_empty(1)

\* C7: peek changes neither length nor the chain; it returns the head's value,
\* a peek directly after a peek of the same list returns the same value, and
\* so does a pop directly after it.
C7_PeekPure ==
  [][/\ (ret'.op = "peek") =>
          /\ heap' = heap
          /\ lists' = lists
          /\ ret'.val = IF Vals(ret'.list) = << >> THEN None
                        ELSE Some(Head(Vals(ret'.list)))
     /\ (ret.op = "peek" /\ ret'.list = ret.list /\ ret'.op \in {"peek", "pop"}) =>
          ret'.val = ret.val]_vars

C7_Witness ==
  /\ ret.op = "peek"
  /\ ret.val # None
  /\ length(ret.list) = MaxLen
  /\ Vals(ret.list)[1] # Vals(ret.list)[2]
  /\ bor.kind = "iter"
  /\ bor.list = ret.list

\* C8: a write of w through the reference of peek_mut leaves length, the
\* order of the nodes and every value after the head as they were and makes
\* w the head's value: the peek or the pop that follows returns Some(w).
C8_PeekMutWrite ==
  [][/\ (bor.kind = "peek_mut" /\ ret'.op = "write") =>
          /\ lists' = lists
          /\ Chain(heap', lists'[bor.list].head, Cardinality(Addr) + 1)
               = Nodes(bor.list)
          /\ ValsOf(heap', lists'[bor.list].head)
               = << ret'.arg >> \o Tail(Vals(bor.list))
     /\ (bor.kind = "peek_mut" /\ ret.op = "write" /\ ret'.list = bor.list
           /\ ret'.op \in {"peek", "pop"}) =>
          ret'.val = Some(ret.arg)]_vars

C8_Witness ==
  /\ bor.kind = "peek_mut"
  /\ ret.op = "write"
  /\ length(bor.list) = MaxLen
  /\ Vals(bor.list)[1] = ret.arg
  /\ Vals(bor.list)[2] # ret.arg

\* C9: clear leaves head = None and length = 0 on any list, so the pop or
\* peek that follows returns None; on an empty list it changes nothing; and a
\* push after it builds the one-element list it builds on a new list.
C9_Clear ==
  [][/\ (call.op = "clear" /\ call'.op = "idle") =>
          /\ lists'[call.self].head = NULL
          /\ lists'[call.self].length = 0
          /\ lists'[call.self] = NewList
     /\ (call.op = "idle" /\ ret.op = "clear" /\ ret'.list = ret.list
           /\ ret'.op \in {"pop", "peek"}) =>
          ret'.val = None
     /\ \A l \in ListIds :
          (lists[l] = NewList /\ ret'.op = "clear" /\ ret'.list = l) =>
            (lists'[l] = NewList /\ heap' = heap)
     /\ (call.op = "idle" /\ ret.op = "clear" /\ ret'.list = ret.list
           /\ ret'.op = "push") =>
          /\ ValsOf(heap', lists'[ret.list].head) = << ret'.arg >>
          /\ lists'[ret.list].length = 1]_vars

C9_Witness ==
  /\ call.op = "idle"
  /\ ret.op = "clear"
  /\ ret.list = 1
  /\ lists[1] = NewList
  /\ lists[2].alive
  /\ length(2) = MaxLen

\* what an Iter has returned so far is the front of the list's values, and
\* its cursor is the node that follows them
IterInOrder ==
  bor.kind = "iter" =>
    LET vs == Vals(bor.list)
        k  == Len(bor.out)
    IN  /\ k <= Len(vs)
        /\ bor.out = SubSeq(vs, 1, k)
        /\ bor.next = IF k < Len(vs) THEN Nodes(bor.list)[k + 1] ELSE NULL
        /\ (ret.op = "iter_next" /\ ret.val = None) => k = Len(vs)

\* C10: the calls of next on a fresh iter() return the list's values front to
\* back, the order in which pop would return them, then None; making the
\* iterator and calling next change neither the length nor the chain.
C10_IterOrder ==
  [][/\ IterInOrder'
     /\ (ret'.op \in {"iter", "iter_next"}) => (heap' = heap /\ lists' = lists)
     /\ (ret'.op = "iter_next") =>
          ret'.val = IF Len(bor.out) < Len(Vals(bor.list))
                     THEN Some(Vals(bor.list)[Len(bor.out) + 1]) ELSE None]_vars

C10_Witness ==
  /\ bor.kind = "iter"
  /\ ret.op = "iter_next"
  /\ ret.val = None
  /\ Len(bor.out) = MaxLen
  /\ bor.out[1] # bor.out[2]

\* the calls of hist are n pushes, the call that makes the iterator mk, and
\* then calls of its next (op nx) only
PushesThenNexts(n, mk, nx) ==
  /\ Len(hist) > n
  /\ \A i \in 1..n : hist[i].op = "push"
  /\ hist[n + 1].op = mk
  /\ \A j \in (n + 2)..Len(hist) : hist[j].op = nx

\* C11: after v1..vn are pushed onto a new list and into_iter() is called on
\* it, the calls of next return the owned values front to back, which is the
\* sequence the pops would have returned: Some(vn), ..., Some(v1), one per
\* node, and None after those.
C11_IntoIterOrder ==
  \A n \in 0..Len(hist) :
    PushesThenNexts(n, "into_iter", "into_next") =>
      \A j \in 1..(Len(hist) - n - 1) :
        hist[n + 1 + j].val = IF j <= n THEN Some(hist[n - j + 1].arg) ELSE None

C11_Witness ==
  /\ PushesThenNexts(MaxLen, "into_iter", "into_next")
  /\ Len(hist) = 2 * MaxLen + 2
  /\ hist[1].arg # hist[2].arg
  /\ hist[Len(hist)].val = None
  /\ hist[Len(hist) - 1].val # None

\* the calls of hist are n pushes, iter_mut(), calls of next and writes
\* through what they returned, and then pops
MutPass(n) ==
  /\ Len(hist) > n
  /\ \A i \in 1..n : hist[i].op = "push"
  /\ hist[n + 1].op = "iter_mut"
  /\ \A i \in (n + 2)..Len(hist) : hist[i].op \in {"iter_mut_next", "write", "pop"}
\* the calls of next of the pass that returned Some, and the j-th of them
Yields == {i \in 1..Len(hist) : hist[i].op = "iter_mut_next" /\ hist[i].val # None}
YieldAt(j) == CHOOSE i \in Yields : Cardinality({k \in Yields : k <= i}) = j
PassPops == {i \in 1..Len(hist) : hist[i].op = "pop"}
PassPopAt(j) == CHOOSE i \in PassPops : Cardinality({k \in PassPops : k <= i}) = j
PassDone == \E i \in 1..Len(hist) : hist[i].op = "iter_mut_next" /\ hist[i].val = None
\* the value of the j-th node from the front before the pass, and after it:
\* f(x) where the x that the j-th next yielded was replaced, else x
Original(n, j) == hist[n - j + 1].arg
Replaced(n, j) ==
  IF /\ j <= Cardinality(Yields)
     /\ YieldAt(j) < Len(hist)
     /\ hist[YieldAt(j) + 1].op = "write"
  THEN hist[YieldAt(j) + 1].arg
  ELSE Original(n, j)

\* C12: a pass of iter_mut() over a list of n pushed values yields each node
\* once, front to back (the j-th next yields the j-th node and its original
\* value, and a pass that has returned None has yielded all n); replacing
\* each yielded x by f(x) changes neither the length nor the order of the
\* nodes, and the pops that follow return f of the original pop sequence,
\* position by position.
C12_IterMutPass ==
  \A n \in 0..Len(hist) :
    MutPass(n) =>
      /\ Cardinality(Yields) <= n
      /\ PassDone => Cardinality(Yields) = n
      /\ \A j \in 1..Cardinality(Yields) :
           hist[YieldAt(j)].val = Some(Original(n, j))
      /\ PassPops = {} =>
           /\ length(1) = n
           /\ Vals(1) = [j \in 1..n |-> Replaced(n, j)]
           /\ bor.refs = {Nodes(1)[j] : j \in 1..Cardinality(Yields)}
      /\ \A j \in 1..Cardinality(PassPops) :
           hist[PassPopAt(j)].val = IF j <= n THEN Some(Replaced(n, j)) ELSE None

C12_Witness ==
  /\ MutPass(MaxLen)
  /\ PassDone
  /\ Cardinality(PassPops) = MaxLen
  /\ \A j \in 1..MaxLen : Replaced(MaxLen, j) # Original(MaxLen, j)
  /\ Replaced(MaxLen, 1) # Replaced(MaxLen, 2)

\* C13: each next() of an IntoIter pops the front of the list it holds: the
\* head value is returned, the successor becomes the head and the length of
\* the held list goes down by one, so that after every next() the held list
\* has length = number of nodes reachable from its head.
C13_IntoIterLength ==
  (lists[IntoId].alive /\ ~InDrop(IntoId)) =>
    length(IntoId) = Len(Nodes(IntoId))

\* the calls of next of the scenario that returned Some before the first
\* that returned None
NextIdx(nx) == {i \in 1..Len(hist) : hist[i].op = nx}
NoneIdx(nx) == {i \in NextIdx(nx) : hist[i].val = None}
SomeBeforeNone(nx) ==
  {i \in NextIdx(nx) : hist[i].val # None /\ \A k \in NoneIdx(nx) : i < k}

\* C14: a new iter() and a new iter_mut() return Some exactly length() times
\* before they return None, and an into_iter() as many times as the list had
\* nodes; each traversal ends: on a list of n nodes the (n+1)-th next
\* returns None.
C14_SomeCount ==
  \A n \in 0..Len(hist) :
    \A it \in {<<"iter", "iter_next">>, <<"iter_mut", "iter_mut_next">>,
               <<"into_iter", "into_next">>} :
      (/\ Len(hist) > n
       /\ \A i \in 1..n : hist[i].op = "push"
       /\ hist[n + 1].op = it[1]) =>
        /\ Cardinality(SomeBeforeNone(it[2])) <= n
        /\ NoneIdx(it[2]) # {} => Cardinality(SomeBeforeNone(it[2])) = n
        /\ Cardinality(NextIdx(it[2])) > n => NoneIdx(it[2]) # {}
        /\ it[1] # "into_iter" /\ bor.kind = it[1] => length(1) = n

C14_Witness ==
  /\ Len(hist) > MaxLen
  /\ \A i \in 1..MaxLen : hist[i].op = "push"
  /\ hist[MaxLen + 1].op = "iter_mut"
  /\ NoneIdx("iter_mut_next") # {}
  /\ Cardinality(SomeBeforeNone("iter_mut_next")) = MaxLen

\* the boxes in use, and the nodes of a chain as a set
Allocated(h) == {a \in Addr : h[a].alloc}
ChainSet(h, a) ==
  LET c == Chain(h, a, Cardinality(Addr) + 1) IN {c[i] : i \in 1..Len(c)}
Destroying == call.op \in {"clear", "drop"}
\* the nodes some live list, or a local of the running destructor, still owns
Owned ==
  UNION {ChainSet(heap, lists[l].head) : l \in Slots}
    \cup (IF Destroying
          THEN ChainSet(heap, call.current) \cup (IF call.node = NULL THEN {} ELSE {call.node})
          ELSE {})

\* inside the loop of drop: the detached node is allocated and owns no
\* successor, the rest of the chain is allocated, and it does not hold node
DropLoopInv ==
  Destroying =>
    /\ call.node # NULL => heap[call.node].alloc /\ heap[call.node].next = NULL
    /\ ChainSet(heap, call.current) \subseteq Allocated(heap)
    /\ call.node \notin ChainSet(heap, call.current)
    /\ Len(Chain(heap, call.current, Cardinality(Addr) + 1)) <= Cardinality(Addr)
    /\ lists[call.self].head = NULL
\* a step of the loop detaches the first node of the rest and releases
\* nothing, or releases the detached node and nothing else; leaving the loop
\* needs the rest to be empty and releases nothing
DropLoopStep ==
  Destroying =>
    /\ (call'.node # NULL /\ call.node = NULL) =>
         /\ call'.node = call.current
         /\ Chain(heap, call.current, Cardinality(Addr) + 1)
              = << call'.node >> \o Chain(heap', call'.current, Cardinality(Addr) + 1)
         /\ Allocated(heap') = Allocated(heap)
    /\ (call.node # NULL /\ call'.node = NULL) =>
         /\ Allocated(heap') = Allocated(heap) \ {call.node}
         /\ call'.current = call.current
    /\ ~Destroying' =>
         /\ call.current = NULL /\ call.node = NULL
         /\ Allocated(heap') = Allocated(heap)

\* C15: destroying a list (drop, the old chain of clear, the list of an
\* IntoIter that is consumed in part) releases every node still in its chain
\* exactly once: the loop detaches one node per step and releases it, never
\* a node that still owns a successor, it ends when the chain is empty, and
\* then no node is left allocated that no live list owns; a node that pop or
\* IntoIter::next released is in no chain and is not released again.
C15_DropReleasesAll ==
  /\ [](DropLoopInv /\ Allocated(heap) = Owned)
  /\ [][DropLoopStep]_vars

C15_Witness ==
  /\ call.op = "drop"
  /\ call.self = IntoId
  /\ call.node # NULL
  /\ call.current # NULL
  /\ Cardinality(Allocated(heap)) > MaxLen

\* the ownership links that point at node a: the head of a list, the next
\* of an allocated node, and the locals current and node of a running drop
OwnersOf(a) ==
  Cardinality({l \in Slots : lists[l].head = a})
    + Cardinality({b \in Allocated(heap) : heap[b].next = a})
    + (IF Destroying /\ call.current = a THEN 1 ELSE 0)
    + (IF Destroying /\ call.node = a THEN 1 ELSE 0)
\* a chain that comes back to a node never ends within Cardinality(Addr) steps
Acyclic(a) == Len(Chain(heap, a, Cardinality(Addr) + 1)) <= Cardinality(Addr)

\* C16: in every reachable state, over all live lists (originals, clones and
\* the list an IntoIter holds), each allocated node is the target of exactly
\* one ownership link, the head of a list or the next of a node (or, inside
\* drop, a local of the destructor), and no chain of next links is cyclic.
C16_SingleOwner ==
  /\ \A a \in Allocated(heap) : OwnersOf(a) = 1
  /\ \A a \in Addr \ Allocated(heap) : OwnersOf(a) = 0
  /\ \A l \in Slots : Acyclic(lists[l].head)
  /\ \A a \in Allocated(heap) : Acyclic(a)
  /\ \A l \in Slots : ~lists[l].alive => lists[l].head = NULL

C16_Witness ==
  /\ call.op = "idle"
  /\ lists[1].alive /\ Len(Nodes(1)) = MaxLen
  /\ lists[IntoId].alive /\ Len(Nodes(IntoId)) = MaxLen

\* C17: push(v) makes v the head value, links the previous head behind the
\* new node, adds one to the length and leaves the other elements as they
\* were; and push(v) followed at once by pop() returns Some(v) and restores
\* the length and the value sequence the list had before the push.
C17_PushThenPop ==
  [][\A l \in ListIds, v \in Values :
       Push(l, v) =>
         /\ ValsOf(heap', lists'[l].head) = << v >> \o Vals(l)
         /\ heap'[lists'[l].head].next = lists[l].head
         /\ lists'[l].length = length(l) + 1
         /\ Chain(heap', lists'[l].head, Cardinality(Addr) + 1)
              = << lists'[l].head >> \o Nodes(l)
         /\ PopRet(heap', lists'[l]) = Some(v)
         /\ PopSelf(heap', lists'[l]).length = length(l)
         /\ ValsOf(PopHeap(heap', lists'[l]), PopSelf(heap', lists'[l]).head)
              = Vals(l)]_vars

\* a push onto a list that held values has just returned
C17_Witness ==
  /\ call.op = "idle"
  /\ ret = Ret("push", 1, MaxVal, None)
  /\ length(1) = MaxLen
  /\ Vals(1)[1] = MaxVal
  /\ Vals(1)[MaxLen] # MaxVal
  /\ PopRet(heap, lists[1]) = Some(MaxVal)

\* C18: l.clone() has the same length() as l, and l.clone().clone() has the
\* same front-to-back value sequence (and length) as l.
C18_CloneOfClone ==
  call.op = "idle" =>
    /\ lists[2].alive => length(2) = length(1) /\ Len(Nodes(2)) = Len(Nodes(1))
    /\ lists[3].alive => Vals(3) = Vals(1) /\ length(3) = length(1)

C18_Witness ==
  /\ call.op = "idle"
  /\ lists[3].alive
  /\ length(1) = MaxLen
  /\ Vals(1)[1] # Vals(1)[MaxLen]
  /\ Vals(3) = Vals(1)
  /\ Vals(2) # Vals(1)

\* the iterators of the scenario by the name of their next
NextOps == {"iter_next", "iter_mut_next", "into_next"}

\* C19: once next() of an Iter, an IterMut or an IntoIter has returned None,
\* every later next() on that iterator returns None and changes no state
\* of the iterator, of the list or of a node.
C19_Fused ==
  [][\A nx \in NextOps :
       (/\ NoneIdx(nx) # {}
        /\ Len(hist') = Len(hist) + 1
        /\ hist'[Len(hist')].op = nx) =>
         /\ hist'[Len(hist')].val = None
         /\ UNCHANGED << heap, lists, bor, call >>]_vars

C19_Witness ==
  /\ PushesThenNexts(MaxLen, "iter", "iter_next")
  /\ NumNone("iter_next") >= 2
  /\ Len(bor.out) = MaxLen

====
